---- MODULE Spec2Model ----
(***************************************************************************)
(* vibe-ticket: the file-backed ticket store (FileStorage behind the       *)
(* TicketRepository / ActiveTicketRepository traits), the advisory lock    *)
(* that guards its operations, and the command handlers that use it.       *)
(*                                                                         *)
(* Spec      every repository operation and every handler command is one   *)
(*           atomic action (one CLI invocation at a time).                 *)
(* SpecConc  two CLI processes run commands against the same storage root; *)
(*           every filesystem access and every lock attempt is one step.   *)
(* SpecFlow   the work-on, review, request-changes, approve and finish     *)
(*           commands, one invocation at a time.                           *)
(* SpecEvents the integration service, the new command that notifies it    *)
(*           and the MCP event bridge that subscribes to it.               *)
(* SpecPhase, SpecHooks, SpecTime  the spec phase commands, execute_hooks  *)
(*           and the time tracker, each on its own sidecar file.           *)
(***************************************************************************)
EXTENDS Integers, Sequences, FiniteSets, TLC

\* ------------------------------------------------------------------ bounds
\* commands run one after the other in one run (Spec)
MaxOps == 2
\* repository calls made one after the other in one run (SpecRepo)
MaxRepoOps == 3
\* handler commands run one after the other in one run (SpecCli)
MaxCliOps == 2

\* ------------------------------------------------------------- the domain
TicketIds == {"t1", "t2"}
Procs == {"p1", "p2"}
None == "none"
Now == "now"
TaskTitles == {"a", "b"}

\* core/status.rs: enum Status
Status == {"todo", "doing", "done", "blocked", "review"}

\* core/status.rs Status::can_start
can_start(self) == self \in {"todo", "blocked"}

\* Task::new(title): not completed, no completed_at
Task_new(title) == [title |-> title, completed |-> FALSE, completed_at |-> None]

\* test_utils.rs create_test_ticket: a ticket in the given status; started_at is
\* set for Doing, closed_at for Done, no tasks.  The slug is derived from the
\* title, one per ticket here.
create_test_ticket(id, status) ==
    [id |-> id, status |-> status, slug |-> id,
     started_at |-> IF status = "doing" THEN Now ELSE None,
     closed_at |-> IF status = "done" THEN Now ELSE None,
     tasks |-> <<>>]

\* Results: Ok(v) / Err(kind)
Ok(v) == [err |-> "ok", val |-> v]
Err(e) == [err |-> e, val |-> <<>>]
IsOk(r) == r.err = "ok"

\* ------------------------------------------------------- the on-disk format
\* A file is a sequence of entries <<key, value>>; a ticket file holds one entry
\* per field, in the order of the struct.
Keys == <<"id", "slug", "status", "started_at", "closed_at", "tasks">>
Hole == <<"hole", "hole">>
Absent == [exists |-> FALSE, data |-> <<>>]
File(data) == [exists |-> TRUE, data |-> data]

\* (a serialisation that drops the closed_at timestamp)
serialize_skips_closed_at(t) ==
    [i \in 1..Len(Keys) |->
        IF Keys[i] = "closed_at" THEN <<Keys[i], None>> ELSE <<Keys[i], t[Keys[i]]>>]

\* the bytes save_ticket writes: one entry per field
serialize(t) == [i \in 1..Len(Keys) |-> <<Keys[i], t[Keys[i]]>>]

WellFormed(data) ==
    /\ Len(data) = Len(Keys)
    /\ \A i \in 1..Len(Keys) : data[i][1] = Keys[i]

\* what load_ticket parses: a record, or the corrupt-data error
deserialize(data) ==
    IF WellFormed(data)
    THEN Ok([id |-> data[1][2], status |-> data[3][2], slug |-> data[2][2],
             started_at |-> data[4][2], closed_at |-> data[5][2],
             tasks |-> data[6][2]])
    ELSE Err("corrupt")

\* the active-ticket files hold one entry per identifier
ids_to_data(ids) == [i \in 1..Len(ids) |-> <<"id", ids[i]>>]
data_to_ids(data) == [i \in 1..Len(data) |-> data[i][2]]

\* paths under the storage root
\* (a storage that keeps every ticket in one file)
ticket_path_shared(id) == "t1"

ticket_path(id) == id
ACTIVE_TICKET == "active_ticket"
ACTIVE_TICKETS == "active_tickets"
Paths == TicketIds \cup {ACTIVE_TICKET, ACTIVE_TICKETS}

\* --------------------------------------------------------- FileStorage
\* A storage step: a FileStorage call (made under the lock), a direct
\* filesystem call of a handler (fs_*, made without it), or a continuation
\* "k" that computes the handler's next calls from the last result.
Step(call, arg) == [call |-> call, arg |-> arg]
LockedCalls == {"save_ticket", "load_ticket", "delete_ticket",
                "clear_active_ticket", "get_active_ticket",
                "get_all_active_tickets", "add_active_ticket",
                "remove_active_ticket", "load_all_tickets",
                "ticket_exists_with_slug"}
WriteCalls == {"save_ticket", "add_active_ticket", "remove_active_ticket", "fs_write"}

read_ids(f, path) == IF f[path].exists THEN data_to_ids(f[path].data) ELSE <<>>
Contains(seq, x) == \E i \in 1..Len(seq) : seq[i] = x

\* add_active_ticket: append unless already listed
add_active_list(ids, id) == IF Contains(ids, id) THEN ids ELSE Append(ids, id)

\* remove_active_ticket: drop the identifier
remove_active_list(ids, id) == SelectSeq(ids, LAMBDA x : x # id)

\* what a writing call writes, given the filesystem it reads: the path, the
\* bytes, and whether it writes at all
WriteOf(s, f) ==
    CASE s.call = "save_ticket" ->
            [data |-> serialize(s.arg), path |-> ticket_path(s.arg.id), skip |-> FALSE]
      [] s.call = "add_active_ticket" ->
            [data |-> ids_to_data(add_active_list(read_ids(f, ACTIVE_TICKETS), s.arg)),
             path |-> ACTIVE_TICKETS,
             skip |-> Contains(read_ids(f, ACTIVE_TICKETS), s.arg)]
      [] s.call = "remove_active_ticket" ->
            [data |-> ids_to_data(remove_active_list(read_ids(f, ACTIVE_TICKETS), s.arg)),
             path |-> ACTIVE_TICKETS,
             skip |-> FALSE]
      [] s.call = "fs_write" ->
            [data |-> s.arg.data, path |-> s.arg.path, skip |-> FALSE]

\* load_all_tickets: the ticket files of the directory, in the order the
\* directory lists them
stored_ids(f, order) == SelectSeq(order, LAMBDA id : f[ticket_path(id)].exists)
load_all_tickets(f, order) ==
    LET ids == stored_ids(f, order)
    IN  IF \E i \in 1..Len(ids) : ~WellFormed(f[ticket_path(ids[i])].data)
        THEN Err("corrupt")
        ELSE Ok([i \in 1..Len(ids) |-> deserialize(f[ticket_path(ids[i])].data).val])

\* ticket_exists_with_slug: some stored ticket has the slug
ticket_exists_with_slug(f, slug) ==
    IF \E id \in TicketIds :
           f[ticket_path(id)].exists /\ ~WellFormed(f[ticket_path(id)].data)
    THEN Err("corrupt")
    ELSE Ok(\E id \in TicketIds :
               /\ f[ticket_path(id)].exists
               /\ deserialize(f[ticket_path(id)].data).val.slug = slug)

\* what a call that does not write a file does: reads and removals
ExecRead(s, f) ==
    CASE s.call = "load_ticket" ->
            [fs |-> f,
             ret |-> IF f[ticket_path(s.arg)].exists
                     THEN deserialize(f[ticket_path(s.arg)].data)
                     ELSE Err("notfound")]
      [] s.call = "delete_ticket" ->
            IF f[ticket_path(s.arg)].exists
            THEN [fs |-> [f EXCEPT ![ticket_path(s.arg)] = Absent], ret |-> Ok(<<>>)]
            ELSE [fs |-> f, ret |-> Err("notfound")]
      [] s.call = "clear_active_ticket" ->
            [fs |-> [f EXCEPT ![ACTIVE_TICKET] = Absent], ret |-> Ok(<<>>)]
      [] s.call = "get_active_ticket" ->
            [fs |-> f,
             ret |-> IF f[ACTIVE_TICKET].exists /\ Len(f[ACTIVE_TICKET].data) = 1
                     THEN Ok(f[ACTIVE_TICKET].data[1][2])
                     ELSE IF f[ACTIVE_TICKET].exists THEN Err("corrupt") ELSE Ok(None)]
      [] s.call = "get_all_active_tickets" ->
            [fs |-> f, ret |-> Ok(read_ids(f, ACTIVE_TICKETS))]
      [] s.call = "load_all_tickets" ->
            [fs |-> f, ret |-> load_all_tickets(f, s.arg)]
      [] s.call = "ticket_exists_with_slug" ->
            [fs |-> f, ret |-> ticket_exists_with_slug(f, s.arg)]
      [] s.call = "fs_read" ->
            [fs |-> f,
             ret |-> IF ~f[s.arg].exists THEN Err("noactive")
                     ELSE IF Len(f[s.arg].data) = 1 THEN Ok(f[s.arg].data[1][2])
                     ELSE Err("invalid")]
      [] s.call = "fs_remove" ->
            [fs |-> [f EXCEPT ![s.arg] = Absent], ret |-> Ok(<<>>)]
      [] s.call = "notify" ->
            [fs |-> f, ret |-> Ok(<<>>)]

\* a whole call, start to return
Exec(s, f) ==
    IF s.call \in WriteCalls
    THEN LET w == WriteOf(s, f)
         IN  [fs |-> IF w.skip THEN f ELSE [f EXCEPT ![w.path] = File(w.data)],
              ret |-> Ok(<<>>)]
    ELSE ExecRead(s, f)

\* ------------------------------------------------------------- handlers
K(name, x) == Step("k", [x |-> x, name |-> name])

\* bulk.rs ticket_matches_filter with a status key, also the shape of the
\* closures given to find; "all" is the empty filter list
ticket_matches_filter(ticket, filter) == filter = "all" \/ ticket.status = filter

\* work_on.rs 76-81: status Doing, started_at stamped
work_on_update(t) == [t EXCEPT !.status = "doing", !.started_at = Now]

\* Task::complete as finish.rs 175-179 / 200-204 apply it
complete(task) == [task EXCEPT !.completed = TRUE, !.completed_at = Now]

\* (an uncomplete that keeps the completion time)
uncomplete_keeps_time(task) == [task EXCEPT !.completed = FALSE]

\* Task::uncomplete as task.rs' tests see it: not completed, no completed_at
uncomplete(task) == [task EXCEPT !.completed = FALSE, !.completed_at = None]

\* task.rs 80-86: a task index is 1-based and within the list
task_index_ok(index, tasks) == index # 0 /\ index <= Len(tasks)

\* bulk.rs parse_status
parse_status(s) == IF s \in Status THEN Ok(s) ELSE Err("invalid")

\* bulk.rs 139-144: handle_bulk_update sets the status, nothing else
bulk_update_ticket(t, s) == [t EXCEPT !.status = s]

\* bulk.rs 322-324 and workflow.rs 112-114: status Done, closed_at stamped
close_update(t) == [t EXCEPT !.status = "done", !.closed_at = Now]

\* workflow.rs 50: status Review
review_update(t) == [t EXCEPT !.status = "review"]

\* workflow.rs 176-177: status Doing, whatever it was
request_changes_update(t) == [t EXCEPT !.status = "doing"]

\* Ticket::new(slug, title) with a fresh identifier: a Todo ticket
Ticket_new(id, slug) == [create_test_ticket(id, "todo") EXCEPT !.slug = slug]

\* Ticket::start: status Doing, started_at stamped
Ticket_start(t) == [t EXCEPT !.status = "doing", !.started_at = Now]

\* finish.rs handle_incomplete_tasks: the user confirms "mark all", or (with
\* more than one incomplete task) selects some of the incomplete ones
Incomplete(tasks) == SelectSeq([i \in 1..Len(tasks) |-> i], LAMBDA i : ~tasks[i].completed)
handle_incomplete_tasks(tasks, x) ==
    LET inc == Incomplete(tasks)
    IN  IF Len(inc) = 0 THEN tasks
        ELSE IF x.mark_all
        THEN [i \in 1..Len(tasks) |->
                 IF tasks[i].completed THEN tasks[i] ELSE complete(tasks[i])]
        ELSE IF Len(inc) > 1
        THEN [i \in 1..Len(tasks) |->
                 IF \E j \in x.sel : j <= Len(inc) /\ inc[j] = i
                 THEN complete(tasks[i]) ELSE tasks[i]]
        ELSE tasks

\* finish.rs cleanup_worktree: what git and the prompt do when finish cleans up
\* the worktree of the ticket: git cannot be run at all, "worktree list" exits
\* with an error, no worktree matches, the prompt fails, the user declines,
\* "worktree remove" succeeds, exits with an error, or cannot be run
GitOutcomes ==
    {"no_git", "not_repo", "no_worktree", "prompt_failed", "declined",
     "removed", "remove_failed", "remove_not_run"}

\* finish.rs 276-330: the ? after Command::output and after the prompt hands
\* the error on; an exit status that is not success is a warning
cleanup_worktree(git) ==
    IF git \in {"no_git", "prompt_failed", "remove_not_run"}
    THEN Err("io") ELSE Ok(<<>>)

\* finish.rs 70-92: tasks handled, status Done, closed_at stamped
finish_update(t, x) ==
    [t EXCEPT !.tasks = handle_incomplete_tasks(t.tasks, x),
              !.status = "done", !.closed_at = Now]

\* ---- integration/mod.rs: the events and the helpers that send them
\* IntegrationEvent::TicketCreated { ticket }
TicketCreated(ticket) ==
    [slug |-> ticket.slug, kind |-> "created", ticket_id |-> ticket.id,
     old_status |-> None, new_status |-> None]

\* IntegrationEvent::StatusChanged { ticket_id, old_status, new_status }
StatusChanged(ticket_id, old_status, new_status) ==
    [slug |-> None, kind |-> "status_changed", ticket_id |-> ticket_id,
     old_status |-> old_status, new_status |-> new_status]

\* notify_ticket_created: hand the event to the service, if there is one
notify_ticket_created(ticket) == <<Step("notify", TicketCreated(ticket))>>

\* (a notification with the two statuses in each other's place)
notify_status_changed_swapped(ticket_id, old_status, new_status) ==
    <<Step("notify", StatusChanged(ticket_id, new_status, old_status))>>

\* notify_status_changed: hand the event to the service, if there is one
notify_status_changed(ticket_id, old_status, new_status) ==
    <<Step("notify", StatusChanged(ticket_id, old_status, new_status))>>

\* (a save that writes the ticket file itself, without FileStorage's lock)
save_ticket_unlocked(ticket) ==
    <<Step("fs_write", [data |-> serialize(ticket), path |-> ticket_path(ticket.id)])>>

\* common.rs TicketOperation::save_ticket for HandlerContext
TicketOperation_save_ticket(ticket) == <<Step("save_ticket", ticket)>>

\* a loop that saves each ticket in turn; the ? after save ends it on an error
save_each(tickets) == [i \in 1..Len(tickets) |-> Step("save_ticket", tickets[i])]

\* bulk.rs 90-93, 310-314: the tickets the filter selects
matching(tickets, filter) ==
    SelectSeq(tickets, LAMBDA t : ticket_matches_filter(t, filter))

\* (a loop that goes through the matching tickets from the last to the first)
bulk_update_changed_reversed(tickets, x) ==
    LET changed == SelectSeq(matching(tickets, x.filter), LAMBDA t : t.status # x.status)
    IN  [i \in 1..Len(changed) |->
            bulk_update_ticket(changed[Len(changed) + 1 - i], x.status)]

\* bulk.rs 127-159: the changed tickets, in the order of load_all
bulk_update_changed(tickets, x) ==
    LET changed == SelectSeq(matching(tickets, x.filter), LAMBDA t : t.status # x.status)
    IN  [i \in 1..Len(changed) |-> bulk_update_ticket(changed[i], x.status)]

\* bulk.rs 292-296, 320-338: the open tickets the filter selects, closed
bulk_close_changed(tickets, filter) ==
    LET open == SelectSeq(matching(tickets, filter), LAMBDA t : t.status # "done")
    IN  [i \in 1..Len(open) |-> close_update(open[i])]

\* The continuation of a handler after the call that returned r: the calls it
\* makes next and the result so far.  An error is propagated (the ? operator)
\* by every continuation but that of exists.
Kont(k, r) ==
    IF k.name = "exists"
    THEN [steps |-> <<>>,
          out |-> IF IsOk(r) THEN Ok(TRUE)
                  ELSE IF r.err = "notfound" THEN Ok(FALSE) ELSE r]
    ELSE IF ~IsOk(r) THEN [steps |-> <<>>, out |-> r]
    ELSE CASE k.name = "first" ->
                [steps |-> <<>>,
                 out |-> Ok(IF Len(r.val) = 0 THEN None ELSE r.val[1])]
           [] k.name = "remove_all" ->
                [steps |-> [i \in 1..Len(r.val) |-> Step("remove_active_ticket", r.val[i])],
                 out |-> Ok(<<>>)]
           [] k.name = "filter" ->
                [steps |-> <<>>,
                 out |-> Ok(SelectSeq(r.val, LAMBDA t : ticket_matches_filter(t, k.x)))]
           [] k.name = "load" ->
                IF r.val = None
                THEN [steps |-> <<>>, out |-> Err("noactive")]
                ELSE [steps |-> <<Step("load_ticket", r.val)>>, out |-> Ok(<<>>)]
           [] k.name = "task_add" ->
                [steps |-> TicketOperation_save_ticket(
                               [r.val EXCEPT !.tasks = Append(@, Task_new(k.x))]),
                 out |-> Ok(<<>>)]
           [] k.name = "work_on" ->
                IF r.val.status = "done"
                THEN [steps |-> <<>>, out |-> Ok(<<>>)]
                ELSE [steps |->
                        (IF r.val.status # "doing"
                         THEN <<Step("save_ticket", work_on_update(r.val))>>
                         ELSE <<>>)
                        \o <<Step("fs_write", [data |-> ids_to_data(<<r.val.id>>),
                                               path |-> ACTIVE_TICKET])>>,
                      out |-> Ok(<<>>)]
           [] k.name = "id" ->
                [steps |-> <<>>, out |-> Ok(k.x)]
           [] k.name = "task_complete" ->
                IF ~task_index_ok(k.x, r.val.tasks) THEN [steps |-> <<>>, out |-> Err("invalid")]
                ELSE IF r.val.tasks[k.x].completed THEN [steps |-> <<>>, out |-> Err("invalid")]
                ELSE [steps |-> TicketOperation_save_ticket(
                                    [r.val EXCEPT !.tasks[k.x] = complete(@)]),
                      out |-> Ok(<<>>)]
           [] k.name = "task_uncomplete" ->
                IF ~task_index_ok(k.x, r.val.tasks) THEN [steps |-> <<>>, out |-> Err("invalid")]
                ELSE [steps |-> TicketOperation_save_ticket(
                                    [r.val EXCEPT !.tasks[k.x] = uncomplete(@)]),
                      out |-> Ok(<<>>)]
           [] k.name = "review" ->
                IF r.val.status = "review"
                THEN [steps |-> <<>>, out |-> Ok(<<>>)]
                ELSE [steps |-> <<Step("save_ticket", review_update(r.val))>>,
                      out |-> Ok(<<>>)]
           [] k.name = "approve" ->
                IF r.val.status = "done"
                THEN [steps |-> <<>>, out |-> Ok(<<>>)]
                ELSE [steps |-> <<Step("save_ticket", close_update(r.val)),
                                  Step("remove_active_ticket", r.val.id)>>,
                      out |-> Ok(<<>>)]
           [] k.name = "request_changes" ->
                [steps |-> <<Step("save_ticket", request_changes_update(r.val))>>,
                 out |-> Ok(<<>>)]
           [] k.name = "bulk_update" ->
                IF Len(matching(r.val, k.x.filter)) = 0
                THEN [steps |-> <<>>, out |-> Ok(<<>>)]
                ELSE IF ~IsOk(parse_status(k.x.status))
                THEN [steps |-> <<>>, out |-> parse_status(k.x.status)]
                ELSE [steps |-> save_each(bulk_update_changed(r.val, k.x)),
                      out |-> Ok(<<>>)]
           [] k.name = "bulk_close" ->
                [steps |-> save_each(bulk_close_changed(r.val, k.x)), out |-> Ok(<<>>)]
           [] k.name = "new" ->
                IF r.val
                THEN [steps |-> <<>>, out |-> Err("duplicate")]
                ELSE [steps |->
                        <<Step("save_ticket", k.x.ticket)>>
                        \o notify_ticket_created(k.x.ticket)
                        \o (IF k.x.start
                            THEN <<Step("save_ticket", Ticket_start(k.x.ticket)),
                                   Step("clear_active_ticket", None),
                                   Step("get_all_active_tickets", None),
                                   K("remove_all", <<>>),
                                   Step("add_active_ticket", k.x.ticket.id)>>
                                 \o notify_status_changed(k.x.ticket.id,
                                                          k.x.ticket.status,
                                                          Ticket_start(k.x.ticket).status)
                            ELSE <<>>),
                      out |-> Ok(<<>>)]
           [] k.name = "finish" ->
                IF r.val.status = "done"
                THEN [steps |-> <<>>, out |-> Ok(<<>>)]
                ELSE [steps |-> <<Step("save_ticket", finish_update(r.val, k.x)),
                                  Step("fs_remove", ACTIVE_TICKET)>>
                                \o (IF k.x.keep_worktree THEN <<>>
                                    ELSE <<K("cleanup_worktree", k.x.git)>>),
                      out |-> Ok(<<>>)]
           [] k.name = "cleanup_worktree" ->
                [steps |-> <<>>, out |-> cleanup_worktree(k.x)]

\* resolve the continuations at the head of the remaining steps against the
\* result r of the call that just returned; an error ends the command
RECURSIVE Unfold(_, _)
Unfold(rest, r) ==
    IF Len(rest) = 0 THEN [steps |-> <<>>, out |-> r]
    ELSE IF Head(rest).call = "k"
    THEN LET k == Kont(Head(rest).arg, r)
         IN  IF IsOk(k.out) THEN Unfold(k.steps \o Tail(rest), k.out)
             ELSE [steps |-> <<>>, out |-> k.out]
    ELSE IF IsOk(r) THEN [steps |-> rest, out |-> r]
    ELSE [steps |-> <<>>, out |-> r]

\* a command run from start to return on filesystem f
RECURSIVE Run(_, _, _)
Run(steps, f, r) ==
    LET u == Unfold(steps, r)
    IN  IF Len(u.steps) = 0 THEN [fs |-> f, ret |-> u.out]
        ELSE LET e == Exec(Head(u.steps), f)
             IN  Run(Tail(u.steps), e.fs, e.ret)

\* the events a command run from start to return on filesystem f hands to
\* the integration helpers, in the order of the calls
RECURSIVE Notified(_, _, _)
Notified(steps, f, r) ==
    LET u == Unfold(steps, r)
    IN  IF Len(u.steps) = 0 THEN <<>>
        ELSE LET e == Exec(Head(u.steps), f)
             IN  (IF Head(u.steps).call = "notify" THEN <<Head(u.steps).arg>> ELSE <<>>)
                 \o Notified(Tail(u.steps), e.fs, e.ret)

\* ---- storage/repository.rs: impl TicketRepository for FileStorage
\* (a save that writes the ticket file itself, as work-on writes the marker)
save_unlocked(ticket) ==
    <<Step("fs_write", [data |-> serialize(ticket), path |-> ticket_path(ticket.id)])>>

save(ticket) == <<Step("save_ticket", ticket)>>
load(id) == <<Step("load_ticket", id)>>
load_all(order) == <<Step("load_all_tickets", order)>>
\* (a delete that also takes the ticket off the active list)
delete_clears_active(id) ==
    <<Step("delete_ticket", id), Step("remove_active_ticket", id)>>

\* (a delete that looks the ticket up and leaves its file)
delete_keeps(id) == <<Step("load_ticket", id)>>

delete(id) == <<Step("delete_ticket", id)>>
\* (an exists that hands on the error of load)
exists_propagates(id) == <<Step("load_ticket", id)>>

exists(id) == <<Step("load_ticket", id), K("exists", <<>>)>>

\* (a find that returns every ticket)
find_unfiltered(predicate, order) == load_all(order)

find(predicate, order) == load_all(order) \o <<K("filter", predicate)>>

\* ---- storage/repository.rs: impl ActiveTicketRepository for FileStorage
clear_active ==
    <<Step("clear_active_ticket", None), Step("get_all_active_tickets", None),
      K("remove_all", <<>>)>>
\* (a set_active that does not clear first)
set_active_without_clear(id) == <<Step("add_active_ticket", id)>>

set_active(id) == clear_active \o <<Step("add_active_ticket", id)>>
get_active == <<Step("get_all_active_tickets", None), K("first", <<>>)>>

\* (an add_active that replaces the active tickets, as set_active does)
add_active_replaces(id) == set_active(id)

add_active(id) == <<Step("add_active_ticket", id)>>
remove_active(id) == <<Step("remove_active_ticket", id)>>
get_all_active == <<Step("get_all_active_tickets", None)>>

\* ---- cli/handlers
\* common.rs TicketOperation::load_ticket: by reference, or the active ticket
\* as FileStorage::get_active_ticket reports it
load_ticket_by_ref(ticket_ref) ==
    IF ticket_ref = None
    THEN <<Step("get_active_ticket", None), K("load", <<>>)>>
    ELSE <<Step("load_ticket", ticket_ref)>>

\* task.rs handle_task_add: load, push Task::new(title), save
handle_task_add(title, ticket_ref) ==
    load_ticket_by_ref(ticket_ref) \o <<K("task_add", title)>>

\* work_on.rs handle_work_on_command: load, start unless Doing, write the marker
handle_work_on_command(ticket) ==
    <<Step("load_ticket", ticket), K("work_on", <<>>)>>

\* finish.rs handle_finish_command: the given ticket or the one the marker
\* file names; close it, save, remove the marker file, clean up the worktree
\* unless told to keep it
handle_finish_command(ticket, x) ==
    (IF ticket = None
     THEN <<Step("fs_read", ACTIVE_TICKET), K("load", <<>>)>>
     ELSE <<Step("load_ticket", ticket)>>)
    \o <<K("finish", x)>>

\* task.rs handle_task_complete: load, check the index and that the task is
\* open, complete it, save
handle_task_complete(task_id, ticket_ref) ==
    load_ticket_by_ref(ticket_ref) \o <<K("task_complete", task_id)>>

\* task.rs handle_task_uncomplete: load, check the index, uncomplete, save
handle_task_uncomplete(task_id, ticket_ref) ==
    load_ticket_by_ref(ticket_ref) \o <<K("task_uncomplete", task_id)>>

\* workflow.rs resolve_ticket: the given ticket if it loads, else the active
\* ticket of get_active()
resolve_ticket(ticket) ==
    IF ticket = None THEN get_active
    ELSE <<Step("load_ticket", ticket), K("id", ticket)>>

\* workflow.rs handle_review_command: resolve, load, status Review, save
handle_review_command(ticket) ==
    resolve_ticket(ticket) \o <<K("load", <<>>), K("review", <<>>)>>

\* workflow.rs handle_approve_command: resolve, load, close, save,
\* remove_active
handle_approve_command(ticket) ==
    resolve_ticket(ticket) \o <<K("load", <<>>), K("approve", <<>>)>>

\* workflow.rs handle_request_changes_command: resolve, load, status Doing,
\* save
handle_request_changes_command(ticket) ==
    resolve_ticket(ticket) \o <<K("load", <<>>), K("request_changes", <<>>)>>

\* bulk.rs handle_bulk_update: load_all, filter, save each changed ticket
handle_bulk_update(filter, status, order) ==
    load_all(order) \o <<K("bulk_update", [status |-> status, filter |-> filter])>>

\* bulk.rs handle_bulk_close: load_all, filter, close and save each open one
handle_bulk_close(filter, order) ==
    load_all(order) \o <<K("bulk_close", filter)>>

\* (a new that saves without looking for the slug)
handle_new_command_unchecked(ticket, start) ==
    <<K("id", FALSE), K("new", [ticket |-> ticket, start |-> start])>>

\* new.rs handle_new_command: reject a slug that is stored, save the new
\* ticket and notify; with --start, start it, save it again, make it the
\* active one and notify the status change
handle_new_command(ticket, start) ==
    <<Step("ticket_exists_with_slug", ticket.slug),
      K("new", [ticket |-> ticket, start |-> start])>>

\* str::to_lowercase on the texts of the model
to_lowercase(s) ==
    CASE s = "Fix Bug" -> "fix bug"
      [] s = "T001" -> "t001"
      [] OTHER -> s

\* utils::generate_slug: the title in lower case, its words joined by hyphens
generate_slug(title) ==
    IF to_lowercase(title) = "fix bug" THEN "fix-bug" ELSE to_lowercase(title)

\* create.rs handle_create_command: build the ticket from the title (205-226)
\* and save it (57-60)
handle_create_command(id, title) ==
    save(Ticket_new(id, generate_slug(title)))

\* spec.rs export_tasks_to_tickets: one ticket per open task line, its slug
\* made of the specification's id and the task's id; save errors are skipped
export_slug(spec_id, task_id) == spec_id \o "-" \o to_lowercase(task_id)
export_tasks_to_tickets(id, spec_id, task_id) ==
    save(Ticket_new(id, export_slug(spec_id, task_id)))

\* ---------------------------------------------------------------- state
VARIABLES
    fs,         \* the storage root: path -> file ([exists, data])
    last,       \* Spec: the command that ran last
    prev,       \* Spec: the command that ran before it
    saved,      \* SpecRepo: the identifiers of the tickets saved so far
    ret,        \* Spec: what the last command returned
    nops,       \* Spec: commands run so far
    lock_file,  \* SpecConc: the lock file exists
    pc,         \* SpecConc: where each process is: idle, acquire, call, write
    prog,       \* SpecConc: the calls each process has still to make, current first
    cmd,        \* SpecConc: the command each process runs, or ran last
    res,        \* SpecConc: what the last command of each process returned
    holds,      \* SpecConc: the process owns a lock guard
    attempts,   \* SpecConc: failed attempts of the process at the lock
    buf,        \* SpecConc: the path and bytes of the write in progress
    wpos,       \* SpecConc: entries of buf written so far
    last_saved, \* SpecConc: per ticket, the file its last locked save or delete leaves
    service,    \* SpecEvents: the integration service is initialised
    queue,      \* SpecEvents: the events the channel holds for the subscriber
    missed,     \* SpecEvents: events the subscriber lost since its last recv
    closed,     \* SpecEvents: the sender of the channel is dropped
    bridge,     \* SpecEvents: the event bridge task: off, running or stopped
    handled,    \* SpecEvents: the events handed to the MCP handler, in order
    faults,     \* SpecEvents: handler errors and lag notices the bridge met
    specification, \* SpecPhase: the progress of the stored specification
    hooks,      \* SpecHooks: the hooks of hooks.yaml, in the order they are visited
    executed,   \* SpecHooks: the hooks the last execute_hooks ran, in order
    tracking    \* SpecTime: the content of time_tracking.yaml

seqvars == <<last, prev, saved, ret, nops>>
concvars == <<lock_file, pc, prog, cmd, res, holds, attempts, buf, wpos, last_saved>>
eventvars == <<service, queue, missed, closed, bridge, handled, faults>>
sidevars == <<eventvars, specification, hooks, executed, tracking>>
vars == <<fs, last, prev, saved, ret, nops,
          lock_file, pc, prog, cmd, res, holds, attempts, buf, wpos, last_saved,
          service, queue, missed, closed, bridge, handled, faults,
          specification, hooks, executed, tracking>>

Cmd(op, arg) == [arg |-> arg, op |-> op]
NoCmd == Cmd("none", [id |-> None])

\* a storage root as earlier commands leave it: the tickets of S freshly
\* created, those of a added to the active list, and m (if any) started by
\* work-on, which left the marker file
MakeFs(S, a, m) ==
    [p \in Paths |->
        IF p \in S
        THEN File(serialize(IF p = m THEN work_on_update(create_test_ticket(p, "todo"))
                            ELSE create_test_ticket(p, "todo")))
        ELSE IF p = ACTIVE_TICKETS /\ Len(a) > 0 THEN File(ids_to_data(a))
        ELSE IF p = ACTIVE_TICKET /\ m # None THEN File(ids_to_data(<<m>>))
        ELSE Absent]
InitActive == {<<>>, <<"t1">>, <<"t2", "t1">>}
InitFs == { MakeFs(S, a, None) : S \in SUBSET TicketIds, a \in InitActive }
InitFsConc ==
    { MakeFs({"t1"}, <<>>, None), MakeFs({"t1", "t2"}, <<"t2", "t1">>, "t1") }

\* test_utils.rs create_ticket_with_tasks: a Todo ticket with tasks
create_ticket_with_tasks(id, tasks) ==
    [create_test_ticket(id, "todo") EXCEPT !.tasks = tasks]

\* the tickets a caller hands to save: in every status, or with tasks
TaskSeqs ==
    {<<Task_new("a")>>, <<complete(Task_new("a"))>>, <<Task_new("a"), Task_new("b")>>}
ValidTickets ==
    { create_test_ticket(id, st) : id \in TicketIds, st \in Status }
    \cup { create_ticket_with_tasks(id, ts) : id \in TicketIds, ts \in TaskSeqs }

\* the answers of the interactive prompts of finish
FinishInputs ==
    [mark_all : {TRUE}, sel : {{}}, git : GitOutcomes, keep_worktree : BOOLEAN]
    \cup [mark_all : {FALSE}, sel : SUBSET {1, 2}, git : {"removed"}, keep_worktree : {TRUE}]
TicketRefs == TicketIds \cup {None}

\* the stored ticket, as load reports it
Stored(f, id) == Exec(Step("load_ticket", id), f).ret

\* ------------------------------------------------------------------ Spec
NoBuf == [data |-> <<>>, path |-> None]
InitCmd ==
    /\ last = NoCmd /\ prev = NoCmd /\ ret = Ok(<<>>) /\ nops = 0
    /\ saved = {id \in TicketIds : fs[ticket_path(id)].exists}
\* no MCP server, no specification, no hooks file, no time-tracking file
NoEvents ==
    /\ service = FALSE /\ queue = <<>> /\ missed = 0 /\ closed = FALSE
    /\ bridge = "off" /\ handled = <<>> /\ faults = 0
NoSpecification == specification = None
NoHooks == hooks = <<>> /\ executed = <<>>
NoTracking == tracking = None
InitSeq ==
    /\ InitCmd
    /\ NoEvents /\ NoSpecification /\ NoHooks /\ NoTracking
InitProcs ==
    /\ lock_file = FALSE
    /\ pc = [p \in Procs |-> "idle"]
    /\ prog = [p \in Procs |-> <<>>]
    /\ cmd = [p \in Procs |-> NoCmd]
    /\ res = [p \in Procs |-> Ok(<<>>)]
    /\ holds = [p \in Procs |-> FALSE]
    /\ attempts = [p \in Procs |-> 0]
    /\ buf = [p \in Procs |-> NoBuf]
    /\ wpos = [p \in Procs |-> 0]
    /\ last_saved = [id \in TicketIds |-> fs[ticket_path(id)]]

Init ==
    /\ fs \in InitFs
    /\ InitSeq
    /\ InitProcs

\* one CLI invocation, start to exit
Do(c, steps) ==
    LET out == Run(steps, fs, Ok(<<>>))
    IN  /\ nops < MaxOps
        /\ fs' = out.fs
        /\ ret' = out.ret
        /\ last' = c
        /\ prev' = last
        /\ nops' = nops + 1
        /\ UNCHANGED <<saved, concvars, sidevars>>

Save == \E t \in ValidTickets : Do(Cmd("save", t), save(t))
Load == \E id \in TicketIds : Do(Cmd("load", id), load(id))
Delete == \E id \in TicketIds : Do(Cmd("delete", id), delete(id))
Exists == \E id \in TicketIds : Do(Cmd("exists", id), exists(id))
SetActive == \E id \in TicketIds : Do(Cmd("set_active", id), set_active(id))
GetActive == Do(Cmd("get_active", None), get_active)
ClearActive == Do(Cmd("clear_active", None), clear_active)
AddActive == \E id \in TicketIds : Do(Cmd("add_active", id), add_active(id))
RemoveActive == \E id \in TicketIds : Do(Cmd("remove_active", id), remove_active(id))
GetAllActive == Do(Cmd("get_all_active", None), get_all_active)
TaskAdd == \E r \in TicketRefs : Do(Cmd("task_add", r), handle_task_add("a", r))
WorkOn == \E id \in TicketIds : Do(Cmd("work_on", id), handle_work_on_command(id))
Finish ==
    \E r \in TicketRefs, x \in FinishInputs :
        Do(Cmd("finish", r), handle_finish_command(r, x))

Next ==
    \/ Save \/ Load \/ Delete \/ Exists
    \/ SetActive \/ GetActive \/ ClearActive
    \/ AddActive \/ RemoveActive \/ GetAllActive
    \/ TaskAdd \/ WorkOn \/ Finish

Spec == Init /\ [][Next]_vars

\* the orders in which the directory lists the ticket files
Orders == {<<"t1", "t2">>, <<"t2", "t1">>}

\* -------------------------------------------------------------- SpecCli
\* the command handlers, one CLI invocation at a time, on the storage roots
\* earlier invocations left
CliShapes == {"todo", "doing", "blocked", "review", "open_task", "two_tasks"}
CliTicket(id, shape) ==
    IF shape \in Status THEN create_test_ticket(id, shape)
    ELSE IF shape = "open_task" THEN create_ticket_with_tasks(id, <<Task_new("a")>>)
    ELSE create_ticket_with_tasks(id, <<complete(Task_new("a")), Task_new("b")>>)

MakeFsCli(S, shape, a, m) ==
    [p \in Paths |->
        IF p \in S THEN File(serialize(CliTicket(p, shape[p])))
        ELSE IF p = ACTIVE_TICKETS /\ Len(a) > 0 THEN File(ids_to_data(a))
        ELSE IF p = ACTIVE_TICKET /\ m # None THEN File(ids_to_data(<<m>>))
        ELSE Absent]
InitFsCli ==
    { MakeFsCli(S, [t1 |-> s1, t2 |-> s2], a, m) :
        S \in SUBSET TicketIds, s1 \in CliShapes, s2 \in {"todo", "doing"},
        a \in {<<>>, <<"t1">>}, m \in {None, "t1"} }

\* TicketId::new(): an identifier no stored ticket has
FreshIds(f) == {id \in TicketIds : ~f[ticket_path(id)].exists}

\* what the user types
Slugs == {"fix-bug", "add-docs"}
Titles == {"Fix Bug", "fix bug"}
BulkFilters == {"all", "todo"}
BulkStatuses == {"done", "doing", "bogus"}
TaskIndexes == 0..2

DoCli(c, steps) ==
    LET out == Run(steps, fs, Ok(<<>>))
    IN  /\ nops < MaxCliOps
        /\ fs' = out.fs
        /\ ret' = out.ret
        /\ last' = c
        /\ prev' = last
        /\ nops' = nops + 1
        /\ UNCHANGED <<saved, concvars, sidevars>>

CliNew ==
    \E id \in FreshIds(fs), sl \in Slugs, st \in BOOLEAN :
        DoCli(Cmd("new", [ticket |-> Ticket_new(id, sl), start |-> st]),
              handle_new_command(Ticket_new(id, sl), st))
CliCreate ==
    \E id \in FreshIds(fs), ti \in Titles :
        DoCli(Cmd("create", [title |-> ti, id |-> id]), handle_create_command(id, ti))
CliExport ==
    \E id \in FreshIds(fs) :
        DoCli(Cmd("export", id), export_tasks_to_tickets(id, "spec", "T001"))
CliWorkOn == \E id \in TicketIds : DoCli(Cmd("work_on", id), handle_work_on_command(id))
CliFinish ==
    \E r \in TicketRefs :
        DoCli(Cmd("finish", r),
              handle_finish_command(r, [mark_all |-> TRUE, sel |-> {},
                                        git |-> "removed", keep_worktree |-> TRUE]))
CliReview == \E r \in TicketRefs : DoCli(Cmd("review", r), handle_review_command(r))
CliApprove == \E r \in TicketRefs : DoCli(Cmd("approve", r), handle_approve_command(r))
CliTaskAdd == \E r \in TicketRefs : DoCli(Cmd("task_add", r), handle_task_add("b", r))
CliTaskComplete ==
    \E i \in TaskIndexes, r \in TicketRefs :
        DoCli(Cmd("task_complete", [task_id |-> i, ref |-> r]), handle_task_complete(i, r))
CliTaskUncomplete ==
    \E i \in TaskIndexes, r \in TicketRefs :
        DoCli(Cmd("task_uncomplete", [task_id |-> i, ref |-> r]),
              handle_task_uncomplete(i, r))
CliBulkUpdate ==
    \E fl \in BulkFilters, st \in BulkStatuses, o \in Orders :
        DoCli(Cmd("bulk_update", [status |-> st, order |-> o, filter |-> fl]),
              handle_bulk_update(fl, st, o))
CliBulkClose ==
    \E fl \in BulkFilters, o \in Orders :
        DoCli(Cmd("bulk_close", [order |-> o, filter |-> fl]), handle_bulk_close(fl, o))

NextCli ==
    \/ CliNew \/ CliCreate \/ CliExport
    \/ CliWorkOn \/ CliFinish \/ CliReview \/ CliApprove
    \/ CliBulkUpdate \/ CliBulkClose

InitCli ==
    /\ fs \in InitFsCli
    /\ InitSeq
    /\ InitProcs

SpecCli == InitCli /\ [][NextCli]_vars

\* ------------------------------------------------------------- SpecFlow
\* the workflow commands (work-on, review, request-changes, approve, finish)
\* on storage roots that hold tickets in every status
MaxFlowOps == 2

FlowInputs ==
    [mark_all : {TRUE}, sel : {{}}, git : GitOutcomes, keep_worktree : {FALSE}]
    \cup {[mark_all |-> TRUE, sel |-> {}, git |-> "removed", keep_worktree |-> TRUE]}
NoInput == [mark_all |-> TRUE, sel |-> {}, git |-> "removed", keep_worktree |-> TRUE]

InitFsFlow ==
    { MakeFsCli(S, [t1 |-> s1, t2 |-> s2], a, m) :
        S \in {{"t1"}, {"t1", "t2"}}, s1 \in Status, s2 \in {"todo", "doing"},
        a \in {<<>>, <<"t1">>, <<"t1", "t2">>}, m \in {None, "t1"} }

DoFlow(c, steps) ==
    LET out == Run(steps, fs, Ok(<<>>))
    IN  /\ nops < MaxFlowOps
        /\ fs' = out.fs
        /\ ret' = out.ret
        /\ last' = c
        /\ prev' = last
        /\ nops' = nops + 1
        /\ UNCHANGED <<saved, concvars, sidevars>>

FlowWorkOn ==
    \E id \in TicketIds :
        DoFlow(Cmd("work_on", [x |-> NoInput, ref |-> id]), handle_work_on_command(id))
FlowReview ==
    \E r \in TicketRefs :
        DoFlow(Cmd("review", [x |-> NoInput, ref |-> r]), handle_review_command(r))
FlowRequestChanges ==
    \E r \in TicketRefs :
        DoFlow(Cmd("request_changes", [x |-> NoInput, ref |-> r]),
               handle_request_changes_command(r))
FlowApprove ==
    \E r \in TicketRefs :
        DoFlow(Cmd("approve", [x |-> NoInput, ref |-> r]), handle_approve_command(r))
FlowFinish ==
    \E r \in TicketRefs, x \in FlowInputs :
        DoFlow(Cmd("finish", [x |-> x, ref |-> r]), handle_finish_command(r, x))

NextFlow == FlowWorkOn \/ FlowReview \/ FlowRequestChanges \/ FlowApprove \/ FlowFinish

InitFlow ==
    /\ fs \in InitFsFlow
    /\ InitSeq
    /\ InitProcs

SpecFlow == InitFlow /\ [][NextFlow]_vars

\* ----------------------------------------------------------- SpecEvents
\* the integration service of one process, the new command that notifies it
\* and the MCP event bridge that subscribes to it
MaxEvOps == 2

\* broadcast::channel(100): the number of unread events the channel retains
\* for a receiver, scaled down
Capacity == 2

\* Sender::send as the subscribed receiver sees it: the event is appended;
\* a receiver that already has Capacity unread events loses the oldest one
send(ch, event) ==
    IF Len(ch.queue) < Capacity
    THEN [queue |-> Append(ch.queue, event), missed |-> ch.missed]
    ELSE [queue |-> Append(Tail(ch.queue), event), missed |-> ch.missed + 1]

\* IntegrationService::send_event for each event of a command, in order
RECURSIVE send_event(_, _)
send_event(ch, events) ==
    IF Len(events) = 0 THEN ch
    ELSE send_event(send(ch, Head(events)), Tail(events))

InitFsEvents ==
    { MakeFsCli(S, [t1 |-> "todo", t2 |-> "todo"], <<>>, None) : S \in {{}, {"t1"}} }

\* init_integration: the process-wide service is set once
EvInitIntegration ==
    /\ ~service
    /\ ~closed
    /\ service' = TRUE
    /\ last' = Cmd("init_integration", [id |-> None])
    /\ prev' = last
    /\ UNCHANGED <<fs, ret, nops, saved, concvars, queue, missed, closed, bridge,
                   handled, faults, specification, hooks, executed, tracking>>

\* start_event_bridge: without a service it logs and returns; with one it
\* subscribes and spawns the loop
EvStartBridge ==
    /\ bridge = "off"
    /\ bridge' = IF service THEN "running" ELSE "off"
    /\ last' = Cmd("start_event_bridge",
                [outcome |-> IF service THEN "started" ELSE "not_initialized"])
    /\ prev' = last
    /\ UNCHANGED <<fs, ret, nops, saved, concvars, service, queue, missed, closed,
                   handled, faults, specification, hooks, executed, tracking>>

\* vibe-ticket new in the process of the service: the helpers do nothing
\* unless integration() is Some, and a send without a receiver is dropped
EvNew ==
    \E id \in FreshIds(fs), sl \in Slugs, st \in BOOLEAN :
        LET steps == handle_new_command(Ticket_new(id, sl), st)
            out == Run(steps, fs, Ok(<<>>))
            ch == IF service /\ bridge = "running"
                  THEN send_event([queue |-> queue, missed |-> missed],
                                  Notified(steps, fs, Ok(<<>>)))
                  ELSE [queue |-> queue, missed |-> missed]
        IN  /\ nops < MaxEvOps
            /\ fs' = out.fs
            /\ ret' = out.ret
            /\ last' = Cmd("new", [ticket |-> Ticket_new(id, sl), start |-> st])
            /\ prev' = last
            /\ nops' = nops + 1
            /\ queue' = ch.queue
            /\ missed' = ch.missed
            /\ UNCHANGED <<saved, concvars, service, closed, bridge, handled, faults,
                           specification, hooks, executed, tracking>>

\* (a loop that leaves on a handler error or a Lagged notification)
EvBridge_fragile ==
    /\ bridge = "running"
    /\ IF missed > 0
       THEN /\ missed' = 0
            /\ faults' = faults + 1
            /\ bridge' = "stopped"
            /\ last' = Cmd("bridge", [outcome |-> "lagged"])
            /\ UNCHANGED <<queue, handled>>
       ELSE IF Len(queue) > 0
       THEN \E h \in {"ok", "err"} :
                /\ queue' = Tail(queue)
                /\ handled' = Append(handled, Head(queue))
                /\ faults' = IF h = "err" THEN faults + 1 ELSE faults
                /\ bridge' = IF h = "err" THEN "stopped" ELSE bridge
                /\ last' = Cmd("bridge", [outcome |-> IF h = "err" THEN "handler_error"
                                                      ELSE "forwarded"])
                /\ UNCHANGED missed
       ELSE /\ closed
            /\ bridge' = "stopped"
            /\ last' = Cmd("bridge", [outcome |-> "closed"])
            /\ UNCHANGED <<queue, missed, handled, faults>>
    /\ prev' = last
    /\ UNCHANGED <<fs, ret, nops, saved, concvars, service, closed,
                   specification, hooks, executed, tracking>>

\* one turn of the bridge's loop: receiver.recv() and the arm it selects.
\* Lagged is logged; an event is converted and handed to the handler, whose
\* error is logged; Closed, which the channel reports once the sender is
\* gone and nothing is left to read, leaves the loop
EvBridge ==
    /\ bridge = "running"
    /\ IF missed > 0
       THEN /\ missed' = 0
            /\ faults' = faults + 1
            /\ last' = Cmd("bridge", [outcome |-> "lagged"])
            /\ UNCHANGED <<queue, handled, bridge>>
       ELSE IF Len(queue) > 0
       THEN \E h \in {"ok", "err"} :
                /\ queue' = Tail(queue)
                /\ handled' = Append(handled, Head(queue))
                /\ faults' = IF h = "err" THEN faults + 1 ELSE faults
                /\ last' = Cmd("bridge", [outcome |-> IF h = "err" THEN "handler_error"
                                                      ELSE "forwarded"])
                /\ UNCHANGED <<missed, bridge>>
       ELSE /\ closed
            /\ bridge' = "stopped"
            /\ last' = Cmd("bridge", [outcome |-> "closed"])
            /\ UNCHANGED <<queue, missed, handled, faults>>
    /\ prev' = last
    /\ UNCHANGED <<fs, ret, nops, saved, concvars, service, closed,
                   specification, hooks, executed, tracking>>

\* the service, and with it the only Sender, is dropped
EvClose ==
    /\ service
    /\ service' = FALSE
    /\ closed' = TRUE
    /\ last' = Cmd("drop_service", [id |-> None])
    /\ prev' = last
    /\ UNCHANGED <<fs, ret, nops, saved, concvars, queue, missed, bridge,
                   handled, faults, specification, hooks, executed, tracking>>

NextEvents == EvInitIntegration \/ EvStartBridge \/ EvNew \/ EvBridge \/ EvClose

InitEvents ==
    /\ fs \in InitFsEvents
    /\ InitCmd /\ NoEvents /\ NoSpecification /\ NoHooks /\ NoTracking
    /\ InitProcs

SpecEvents == InitEvents /\ [][NextEvents]_vars

\* ------------------------------------------------------------ SpecPhase
\* the spec commands that write the progress of a stored specification
MaxPhaseOps == 3

SpecPhases == {"requirements", "design", "tasks", "implementation", "completed"}

\* spec_base.rs validation::can_transition_phase
can_transition_phase(spec, to_phase) ==
    CASE spec.current_phase = "requirements" /\ to_phase = "design" ->
            spec.requirements_completed
      [] spec.current_phase = "design" /\ to_phase = "implementation" ->
            spec.design_completed
      [] spec.current_phase = "implementation" /\ to_phase = "completed" ->
            spec.tasks_completed
      [] spec.current_phase = "tasks" /\ to_phase = "completed" ->
            spec.tasks_completed
      [] OTHER -> FALSE

\* spec_common.rs SpecPhaseHandler::handle_phase_operation: the loaded
\* specification is given the handler's phase and saved
handle_phase_operation(spec, phase) == [spec EXCEPT !.current_phase = phase]

\* spec.rs handle_spec_requirements
handle_spec_requirements(spec) == handle_phase_operation(spec, "requirements")

\* spec.rs handle_spec_design: with a spec id and neither --complete nor
\* --editor the phase operation; with --complete the design is marked
\* complete; else only the document is written
handle_spec_design(spec, given, editor, complete_flag) ==
    IF given /\ ~complete_flag /\ ~editor THEN handle_phase_operation(spec, "design")
    ELSE IF complete_flag THEN [spec EXCEPT !.design_completed = TRUE]
    ELSE spec

\* spec.rs handle_spec_tasks: --complete marks the tasks complete
handle_spec_tasks(spec, complete_flag) ==
    IF complete_flag THEN [spec EXCEPT !.tasks_completed = TRUE] ELSE spec

\* spec.rs handle_spec_plan: writes the plan and marks the design complete
handle_spec_plan(spec) == [spec EXCEPT !.design_completed = TRUE]

\* the specifications SpecManager can load
InitSpecifications ==
    [current_phase : SpecPhases, requirements_completed : BOOLEAN,
     design_completed : BOOLEAN, tasks_completed : BOOLEAN]

\* the spec ids a user names: the stored one, which is also the active
\* spec used when none is named, or one that is not stored
SpecIds == {"s1", "s9"}

DoPhase(c, sid, spec) ==
    /\ nops < MaxPhaseOps
    /\ IF sid = "s1"
       THEN specification' = spec /\ ret' = Ok(<<>>)
       ELSE specification' = specification /\ ret' = Err("spec_not_found")
    /\ last' = c
    /\ prev' = last
    /\ nops' = nops + 1
    /\ UNCHANGED <<fs, saved, concvars, eventvars, hooks, executed, tracking>>

PhRequirements ==
    \E sid \in SpecIds :
        DoPhase(Cmd("spec_requirements", [id |-> sid]), sid,
                handle_spec_requirements(specification))
PhDesign ==
    \E sid \in SpecIds, g, e, c \in BOOLEAN :
        DoPhase(Cmd("spec_design", [id |-> sid, complete |-> c, given |-> g, editor |-> e]),
                IF g THEN sid ELSE "s1", handle_spec_design(specification, g, e, c))
PhTasks ==
    \E sid \in SpecIds, c \in BOOLEAN :
        DoPhase(Cmd("spec_tasks", [id |-> sid, complete |-> c]), sid,
                handle_spec_tasks(specification, c))
PhPlan ==
    \E sid \in SpecIds :
        DoPhase(Cmd("spec_plan", [id |-> sid]), sid, handle_spec_plan(specification))

NextPhase == PhRequirements \/ PhDesign \/ PhTasks \/ PhPlan

InitPhase ==
    /\ fs \in InitFsEvents
    /\ InitCmd /\ NoEvents /\ NoHooks /\ NoTracking
    /\ specification \in InitSpecifications
    /\ InitProcs

SpecPhase == InitPhase /\ [][NextPhase]_vars

\* ------------------------------------------------------------ SpecHooks
\* execute_hooks on the hooks a project has configured
MaxHooks == 3

\* HookEvent::as_str of the events used here
HookEvents == {"pre_close", "post_close", "post_create"}

\* event.as_str().starts_with("pre_")
starts_with_pre(event) == event \in {"pre_close", "pre_status_change"}

\* the hooks of hooks.yaml in the order HashMap::values visits them: each
\* with its event and flags, and whether its command fails when run
HookSet ==
    [event : {"pre_close", "post_close"}, enabled : BOOLEAN,
     abort_on_failure : BOOLEAN, fails : BOOLEAN]
InitHooks == UNION { [1..n -> HookSet] : n \in 0..MaxHooks }

\* Hooks::get_for_event: the positions of the enabled hooks of the event
get_for_event(hs, event) ==
    SelectSeq([i \in 1..Len(hs) |-> i],
              LAMBDA i : hs[i].event = event /\ hs[i].enabled)

\* (an abort on the failure of an abort_on_failure hook of any event)
aborts_on_any_event(hook, event) == hook.fails /\ hook.abort_on_failure

\* the test of the loop of execute_hooks: the hook failed, has
\* abort_on_failure and the event is a pre_ event
aborts(hook, event) ==
    hook.fails /\ hook.abort_on_failure /\ starts_with_pre(event)

\* the loop of execute_hooks over the hooks at positions event_hooks: the
\* positions run, and the value returned
RECURSIVE run_hooks(_, _, _)
run_hooks(hs, event_hooks, event) ==
    IF Len(event_hooks) = 0 THEN [ret |-> Ok(TRUE), executed |-> <<>>]
    ELSE IF aborts(hs[Head(event_hooks)], event)
    THEN [ret |-> Ok(FALSE), executed |-> <<Head(event_hooks)>>]
    ELSE LET rest == run_hooks(hs, Tail(event_hooks), event)
         IN  [ret |-> rest.ret, executed |-> <<Head(event_hooks)>> \o rest.executed]

\* execute_hooks: load the hooks (an unreadable file is an error), run those
\* of the event
execute_hooks(hs, event, loaded) ==
    IF ~loaded THEN [ret |-> Err("io"), executed |-> <<>>]
    ELSE run_hooks(hs, get_for_event(hs, event), event)

ExecuteHooks ==
    \E event \in HookEvents, loaded \in BOOLEAN :
        LET out == execute_hooks(hooks, event, loaded)
        IN  /\ executed' = out.executed
            /\ ret' = out.ret
            /\ last' = Cmd("execute_hooks", [id |-> event])
            /\ UNCHANGED <<fs, prev, nops, saved, concvars, eventvars, specification,
                           hooks, tracking>>

NextHooks == ExecuteHooks

InitHooksSpec ==
    /\ fs = MakeFsCli({}, [t1 |-> "todo", t2 |-> "todo"], <<>>, None)
    /\ InitCmd /\ NoEvents /\ NoSpecification /\ NoTracking
    /\ hooks \in InitHooks
    /\ executed = <<>>
    /\ InitProcs

SpecHooks == InitHooksSpec /\ [][NextHooks]_vars

\* ------------------------------------------------------------- SpecTime
\* time start and time stop, one invocation at a time, on time_tracking.yaml
MaxTimeOps == 4
\* the minutes the clock can show
MaxMinute == 2
Minutes == 0..MaxMinute

\* Option<ActiveTimer>: no element, or one
is_some(o) == Len(o) > 0

\* TimeTracking::default, which load returns when there is no file
TimeTracking_default == [entries |-> <<>>, active_timer |-> <<>>]

\* the rounding of handle_time_stop: at least one minute
round_up(duration_minutes) == IF duration_minutes < 1 THEN 1 ELSE duration_minutes

\* (a start that does not look for a running timer)
handle_time_start_unchecked(tr, ticket_id, now) ==
    IF ticket_id = None THEN [ret |-> Err("notfound"), tracking |-> tr]
    ELSE [ret |-> Ok(<<>>),
          tracking |-> [tr EXCEPT !.active_timer =
                            <<[started_at |-> now, ticket_id |-> ticket_id]>>]]

\* handle_time_start: resolve the ticket, load, refuse if a timer is running,
\* else set the timer and save
handle_time_start(tr, ticket_id, now) ==
    IF ticket_id = None THEN [ret |-> Err("notfound"), tracking |-> tr]
    ELSE IF is_some(tr.active_timer) THEN [ret |-> Err("timer_running"), tracking |-> tr]
    ELSE [ret |-> Ok(<<>>),
          tracking |-> [tr EXCEPT !.active_timer =
                            <<[started_at |-> now, ticket_id |-> ticket_id]>>]]

\* handle_time_stop: load, take the timer or fail, add one entry of the
\* rounded duration, save
handle_time_stop(tr, now) ==
    IF ~is_some(tr.active_timer) THEN [ret |-> Err("no_timer"), tracking |-> tr]
    ELSE [ret |-> Ok(<<>>),
          tracking |->
            [entries |-> Append(tr.entries,
                                [ticket_id |-> tr.active_timer[1].ticket_id,
                                 duration_minutes |->
                                    round_up(now - tr.active_timer[1].started_at)]),
             active_timer |-> <<>>]]

\* the file as earlier invocations left it: absent, or with a timer running
InitTracking ==
    {TimeTracking_default}
    \cup {[entries |-> <<>>, active_timer |-> <<[started_at |-> m, ticket_id |-> "t1"]>>] :
            m \in Minutes}

DoTime(c, out) ==
    /\ nops < MaxTimeOps
    /\ tracking' = out.tracking
    /\ ret' = out.ret
    /\ last' = c
    /\ prev' = last
    /\ nops' = nops + 1
    /\ UNCHANGED <<fs, saved, concvars, eventvars, specification, hooks, executed>>

TimeStart ==
    \E id \in TicketIds \cup {None}, now \in Minutes :
        DoTime(Cmd("time_start", [now |-> now, id |-> id]),
               handle_time_start(tracking, id, now))
TimeStop ==
    \E now \in Minutes :
        DoTime(Cmd("time_stop", [now |-> now, id |-> None]),
               handle_time_stop(tracking, now))

NextTime == TimeStart \/ TimeStop

InitTime ==
    /\ fs = MakeFsCli({"t1", "t2"}, [t1 |-> "todo", t2 |-> "todo"], <<>>, None)
    /\ InitCmd /\ NoEvents /\ NoSpecification /\ NoHooks
    /\ tracking \in InitTracking
    /\ InitProcs

SpecTime == InitTime /\ [][NextTime]_vars

\* ------------------------------------------------------------- SpecTask
\* the commands that touch the tasks of a ticket
InitFsTask ==
    { MakeFsCli(S, [t1 |-> s1, t2 |-> "todo"], <<>>, m) :
        S \in {{"t1"}, {"t1", "t2"}}, s1 \in {"todo", "open_task", "two_tasks"},
        m \in {None, "t1"} }

NextTask == CliTaskAdd \/ CliTaskComplete \/ CliTaskUncomplete \/ CliFinish

InitTask ==
    /\ fs \in InitFsTask
    /\ InitSeq
    /\ InitProcs

SpecTask == InitTask /\ [][NextTask]_vars

\* ------------------------------------------------------------- SpecRepo
\* the TicketRepository calls of one caller, with the identifiers saved so far
Filters == {"all", "todo", "done"}
RepoTickets == { create_test_ticket(id, st) : id \in TicketIds, st \in {"todo", "done"} }

DoRepo(c, steps) ==
    LET out == Run(steps, fs, Ok(<<>>))
    IN  /\ nops < MaxRepoOps
        /\ fs' = out.fs
        /\ ret' = out.ret
        /\ last' = c
        /\ prev' = last
        /\ nops' = nops + 1
        /\ saved' = IF c.op = "save" /\ IsOk(out.ret) THEN saved \cup {c.arg.id} ELSE saved
        /\ UNCHANGED <<concvars, sidevars>>

RepoSave == \E t \in RepoTickets : DoRepo(Cmd("save", t), save(t))
RepoLoad == \E id \in TicketIds : DoRepo(Cmd("load", id), load(id))
RepoDelete == \E id \in TicketIds : DoRepo(Cmd("delete", id), delete(id))
RepoExists == \E id \in TicketIds : DoRepo(Cmd("exists", id), exists(id))
RepoLoadAll == \E o \in Orders : DoRepo(Cmd("load_all", o), load_all(o))
RepoFind ==
    \E o \in Orders, fl \in Filters :
        DoRepo(Cmd("find", [order |-> o, filter |-> fl]), find(fl, o))

NextRepo == RepoSave \/ RepoLoad \/ RepoDelete \/ RepoExists \/ RepoLoadAll \/ RepoFind

InitRepo ==
    /\ fs \in { MakeFs(S, <<>>, None) : S \in SUBSET TicketIds }
    /\ InitSeq
    /\ InitProcs

SpecRepo == InitRepo /\ [][NextRepo]_vars

\* -------------------------------------------------------------- SpecConc
\* entries one write call transfers
ChunkLen == 3
\* retries of a lock attempt before it gives up
MaxRetries == 2

Min(a, b) == IF a < b THEN a ELSE b
Max(a, b) == IF a > b THEN a ELSE b

\* a write of chunk at offset off of a file that holds data
WriteAt(data, off, chunk) ==
    [i \in 1..Max(Len(data), off + Len(chunk)) |->
        IF i > off /\ i <= off + Len(chunk) THEN chunk[i - off]
        ELSE IF i <= Len(data) THEN data[i] ELSE Hole]

\* the calls of a command
Prog(c) ==
    CASE c.op = "save" -> save(c.arg)
      [] c.op = "load" -> load(c.arg)
      [] c.op = "delete" -> delete(c.arg)
      [] c.op = "set_active" -> set_active(c.arg)
      [] c.op = "clear_active" -> clear_active
      [] c.op = "add_active" -> add_active(c.arg)
      [] c.op = "remove_active" -> remove_active(c.arg)
      [] c.op = "get_active" -> get_active
      [] c.op = "task_add" -> handle_task_add(c.arg.title, c.arg.ref)
      [] c.op = "work_on" -> handle_work_on_command(c.arg)
      [] c.op = "finish" -> handle_finish_command(c.arg.ref, c.arg.x)
      [] c.op = "new" -> handle_new_command(c.arg.ticket, c.arg.start)
      [] c.op = "bulk_update" ->
            handle_bulk_update(c.arg.filter, c.arg.status, c.arg.order)

\* the inputs of the commands two terminals run against one storage root
ConcTickets == { create_test_ticket(id, st) : id \in TicketIds, st \in {"doing", "done"} }
IdOps == {"load", "delete", "set_active", "add_active", "remove_active", "work_on"}
NoArgOps == {"clear_active", "get_active"}

\* (a guard released by hand on the success path only)
DroppedOnOk(r) == IsOk(r)

\* the lock guard is dropped when the call returns, whatever it returns
Dropped(r) == TRUE

\* the lock file can be created: none exists
LockFree == ~lock_file

\* (a wait with no limit)
NeverExhausted(n) == FALSE

\* (a lock attempt that gives up at once)
ExhaustedAtOnce(n) == TRUE

\* the retries are used up
RetriesExhausted(n) == n >= MaxRetries

\* process p goes on after a call returned r, with steps left to run
Proceed(p, steps, r) ==
    LET u == Unfold(steps, r)
    IN  /\ prog' = [prog EXCEPT ![p] = u.steps]
        /\ IF Len(u.steps) = 0
           THEN /\ pc' = [pc EXCEPT ![p] = "idle"]
                /\ res' = [res EXCEPT ![p] = u.out]
                /\ attempts' = attempts
           ELSE IF Head(u.steps).call \in LockedCalls
           THEN /\ pc' = [pc EXCEPT ![p] = "acquire"]
                /\ res' = res
                /\ attempts' = [attempts EXCEPT ![p] = 0]
           ELSE /\ pc' = [pc EXCEPT ![p] = "call"]
                /\ res' = res
                /\ attempts' = attempts

\* the current call of p returns r: its lock guard goes out of scope
Return(p, r) ==
    /\ IF holds[p] /\ Dropped(r)
       THEN holds' = [holds EXCEPT ![p] = FALSE] /\ lock_file' = FALSE
       ELSE UNCHANGED <<holds, lock_file>>
    /\ Proceed(p, Tail(prog[p]), r)

\* a CLI process is launched with command c; it runs that one command
Start(p, c) ==
    /\ pc[p] = "idle"
    /\ cmd[p].op = "none"
    /\ cmd' = [cmd EXCEPT ![p] = c]
    /\ Proceed(p, Prog(c), Ok(<<>>))
    /\ UNCHANGED <<fs, lock_file, holds, buf, wpos, last_saved>>
    /\ UNCHANGED <<seqvars, sidevars>>

StartSave(p) == \E t \in ConcTickets : Start(p, Cmd("save", t))
StartById(p) == \E op \in IdOps, id \in TicketIds : Start(p, Cmd(op, id))
StartNoArg(p) == \E op \in NoArgOps : Start(p, Cmd(op, None))
StartTaskAdd(p) ==
    \E ti \in TaskTitles, id \in TicketIds :
        Start(p, Cmd("task_add", [title |-> ti, ref |-> id]))
StartFinish(p) ==
    \E r \in TicketRefs, m \in BOOLEAN :
        Start(p, Cmd("finish", [x |-> [mark_all |-> m, sel |-> {},
                                       git |-> "removed", keep_worktree |-> TRUE],
                                ref |-> r]))

\* FileLock::acquire: the lock file is created if there is none
Acquire(p) ==
    /\ pc[p] = "acquire"
    /\ LockFree
    /\ lock_file' = TRUE
    /\ holds' = [holds EXCEPT ![p] = TRUE]
    /\ pc' = [pc EXCEPT ![p] = "call"]
    /\ last_saved' =
         IF Head(prog[p]).call = "save_ticket"
         THEN [last_saved EXCEPT ![Head(prog[p]).arg.id] = File(serialize(Head(prog[p]).arg))]
         ELSE last_saved
    /\ UNCHANGED <<fs, prog, cmd, res, attempts, buf, wpos>>
    /\ UNCHANGED <<seqvars, sidevars>>

\* FileLock::acquire: the lock file exists; wait and try again
Retry(p) ==
    /\ pc[p] = "acquire"
    /\ ~LockFree
    /\ ~RetriesExhausted(attempts[p])
    /\ attempts' = [attempts EXCEPT ![p] = Min(@ + 1, MaxRetries)]
    /\ UNCHANGED <<fs, lock_file, pc, prog, cmd, res, holds, buf, wpos, last_saved>>
    /\ UNCHANGED <<seqvars, sidevars>>

\* FileLock::acquire: the retries are used up; the call fails, storage locked
LockTimeout(p) ==
    /\ pc[p] = "acquire"
    /\ ~LockFree
    /\ RetriesExhausted(attempts[p])
    /\ Return(p, Err("locked"))
    /\ UNCHANGED <<fs, cmd, buf, wpos, last_saved>>
    /\ UNCHANGED <<seqvars, sidevars>>

\* a call that reads or removes: one filesystem access
CallRead(p) ==
    /\ pc[p] = "call"
    /\ Head(prog[p]).call \notin WriteCalls
    /\ LET e == ExecRead(Head(prog[p]), fs)
       IN  /\ fs' = e.fs
           /\ last_saved' =
                IF Head(prog[p]).call = "delete_ticket" /\ IsOk(e.ret)
                THEN [last_saved EXCEPT ![Head(prog[p]).arg] = Absent]
                ELSE last_saved
           /\ Return(p, e.ret)
    /\ UNCHANGED <<cmd, buf, wpos>>
    /\ UNCHANGED <<seqvars, sidevars>>

\* a call that writes a file: fs::write opens it, which truncates it
CallWrite(p) ==
    /\ pc[p] = "call"
    /\ Head(prog[p]).call \in WriteCalls
    /\ LET w == WriteOf(Head(prog[p]), fs)
       IN  IF w.skip
           THEN /\ Return(p, Ok(<<>>))
                /\ UNCHANGED <<fs, buf, wpos>>
           ELSE /\ fs' = [fs EXCEPT ![w.path] = File(<<>>)]
                /\ IF Len(w.data) = 0
                   THEN /\ Return(p, Ok(<<>>))
                        /\ UNCHANGED <<buf, wpos>>
                   ELSE /\ buf' = [buf EXCEPT ![p] = [data |-> w.data, path |-> w.path]]
                        /\ wpos' = [wpos EXCEPT ![p] = 0]
                        /\ pc' = [pc EXCEPT ![p] = "write"]
                        /\ UNCHANGED <<lock_file, holds, prog, res, attempts>>
    /\ UNCHANGED <<cmd, last_saved>>
    /\ UNCHANGED <<seqvars, sidevars>>

\* fs::write writes the next entries at its offset; after the last it returns
Write(p) ==
    /\ pc[p] = "write"
    /\ LET b == buf[p]
           n == Min(wpos[p] + ChunkLen, Len(b.data))
       IN  /\ fs' = IF fs[b.path].exists
                    THEN [fs EXCEPT ![b.path].data =
                             WriteAt(@, wpos[p], SubSeq(b.data, wpos[p] + 1, n))]
                    ELSE fs
           /\ IF n = Len(b.data)
              THEN /\ Return(p, Ok(<<>>))
                   /\ buf' = [buf EXCEPT ![p] = NoBuf]
                   /\ wpos' = [wpos EXCEPT ![p] = 0]
              ELSE /\ wpos' = [wpos EXCEPT ![p] = n]
                   /\ UNCHANGED <<lock_file, pc, prog, res, holds, attempts, buf>>
    /\ UNCHANGED <<cmd, last_saved>>
    /\ UNCHANGED <<seqvars, sidevars>>

NextConc ==
    \E p \in Procs :
        \/ StartSave(p) \/ StartById(p) \/ StartNoArg(p)
        \/ StartTaskAdd(p) \/ StartFinish(p)
        \/ Acquire(p) \/ Retry(p) \/ LockTimeout(p)
        \/ CallRead(p) \/ CallWrite(p) \/ Write(p)

InitConc ==
    /\ fs \in InitFsConc
    /\ InitSeq
    /\ InitProcs

SpecConc == InitConc /\ [][NextConc]_vars

\* ------------------------------------------------------------- SpecLock
\* two processes, each a save or a load: the lock alone
StartLock(p) ==
    \/ \E t \in ConcTickets : Start(p, Cmd("save", t))
    \/ \E id \in TicketIds : Start(p, Cmd("load", id))

LockStep(p) == Acquire(p) \/ Retry(p) \/ LockTimeout(p)

NextLock ==
    \E p \in Procs :
        \/ StartLock(p)
        \/ Acquire(p) \/ Retry(p) \/ LockTimeout(p)
        \/ CallRead(p) \/ CallWrite(p) \/ Write(p)

SpecLock == InitConc /\ [][NextLock]_vars

\* -------------------------------------------------------------- SpecNew
\* two terminals, each running new: the duplicate check and the save are two
\* calls of FileStorage, each under its own lock
InitFsNew ==
    { MakeFsCli(S, [t1 |-> "todo", t2 |-> "todo"], <<>>, None) : S \in {{}, {"t1"}} }
    \cup { [MakeFs({}, <<>>, None) EXCEPT
              ![ticket_path("t1")] = File(serialize(Ticket_new("t1", sl)))] : sl \in Slugs }

\* the identifiers the other new commands generated
TakenIds(p) == {cmd[q].arg.ticket.id : q \in {r \in Procs \ {p} : cmd[r].op = "new"}}

StartNew(p) ==
    \E id \in FreshIds(fs) \ TakenIds(p), sl \in Slugs, st \in BOOLEAN :
        Start(p, Cmd("new", [ticket |-> Ticket_new(id, sl), start |-> st]))

NextNew ==
    \E p \in Procs :
        \/ StartNew(p)
        \/ Acquire(p) \/ Retry(p) \/ LockTimeout(p)
        \/ CallRead(p) \/ CallWrite(p) \/ Write(p)

InitNew ==
    /\ fs \in InitFsNew
    /\ InitSeq
    /\ InitProcs

SpecNew == InitNew /\ [][NextNew]_vars

\* ------------------------------------------------------------- SpecBulk
\* one terminal runs a bulk update while another loads a ticket: a save of
\* the bulk update may find the storage locked until its retries are used up
InitFsBulk == { MakeFs(S, <<>>, None) : S \in {{"t1"}, {"t1", "t2"}} }

StartBulkUpdate ==
    \E fl \in BulkFilters, st \in BulkStatuses, o \in Orders :
        Start("p1", Cmd("bulk_update", [status |-> st, order |-> o, filter |-> fl]))
StartLoad == \E id \in TicketIds : Start("p2", Cmd("load", id))

NextBulk ==
    \/ StartBulkUpdate \/ StartLoad
    \/ \E p \in Procs :
          \/ Acquire(p) \/ Retry(p) \/ LockTimeout(p)
          \/ CallRead(p) \/ CallWrite(p) \/ Write(p)

InitBulk ==
    /\ fs \in InitFsBulk
    /\ InitSeq
    /\ InitProcs

SpecBulk == InitBulk /\ [][NextBulk]_vars

\* ------------------------------------------------------------- SpecSave
\* two processes, each a save: the writers that wait for each other
NextSave ==
    \E p \in Procs :
        \/ \E t \in ConcTickets : Start(p, Cmd("save", t))
        \/ Acquire(p) \/ Retry(p) \/ LockTimeout(p)
        \/ CallWrite(p) \/ Write(p)

SpecSave == InitConc /\ [][NextSave]_vars

\* a step of p's wait: it stops waiting or counts one more retry
WaitStep(p) ==
    /\ pc[p] = "acquire"
    /\ LockStep(p)
    /\ pc'[p] # "acquire" \/ attempts'[p] # attempts[p]

\* a process that waits for the lock keeps running: its retry loop goes on
\* whether or not the holder of the lock ever takes another step
waitvars == <<pc, attempts>>
SpecSaveFair == SpecSave /\ \A p \in Procs : WF_waitvars(WaitStep(p))

\* ---------------------------------------------------- the views of a state
\* what get_active(), get_all_active() and the legacy marker report
GetActiveView(f) == Run(get_active, f, Ok(<<>>)).ret.val
GetAllActiveView(f) == Run(get_all_active, f, Ok(<<>>)).ret.val
LegacyMarker(f) == IF f[ACTIVE_TICKET].exists THEN data_to_ids(f[ACTIVE_TICKET].data) ELSE <<>>
Count(seq, x) == Cardinality({i \in 1..Len(seq) : seq[i] = x})

\* ------------------------------------------------------- claims under Spec
\* C7: the two active-ticket representations are kept consistent: the ticket
\* the legacy marker file names is the active ticket get_active() reports from
\* the active list, after any sequence of commands.
C7_ActiveViewsConsistent ==
    \A i \in 1..Len(LegacyMarker(fs)) : GetActiveView(fs) = LegacyMarker(fs)[i]

\* C8: after set_active(id) succeeds, get_active() is Some(id) and id is the
\* only entry of get_all_active(); after clear_active() succeeds, get_active()
\* is None and get_all_active() is empty -- whatever was active before.
C8_SingleMarker ==
    /\ (last.op = "set_active" /\ IsOk(ret)) =>
            /\ GetActiveView(fs) = last.arg
            /\ GetAllActiveView(fs) = <<last.arg>>
    /\ (last.op = "clear_active" /\ IsOk(ret)) =>
            /\ GetActiveView(fs) = None
            /\ GetAllActiveView(fs) = <<>>

\* set_active(id) has run on a store where another ticket was active
C8_Witness ==
    /\ last.op = "set_active" /\ IsOk(ret)
    /\ prev.op = "add_active" /\ prev.arg # last.arg
    /\ GetActiveView(fs) = last.arg

\* C9: after add_active(a) followed by add_active(b), get_all_active() holds
\* a exactly once and b exactly once.
C9_AddActiveOnce ==
    (prev.op = "add_active" /\ last.op = "add_active") =>
        /\ Count(GetAllActiveView(fs), prev.arg) = 1
        /\ Count(GetAllActiveView(fs), last.arg) = 1

\* two different tickets were added, to a list that had one of them already
C9_Witness ==
    /\ prev.op = "add_active" /\ last.op = "add_active" /\ prev.arg # last.arg
    /\ Len(GetAllActiveView(fs)) = 2

ClearingOps == {"clear_active", "remove_active", "set_active"}

\* C26: delete(id) does not touch the active marker: a successful delete
\* removes the ticket file and leaves the active list and the marker file as
\* they were, and an active id without a ticket file stays the answer of
\* get_active() over every command that is not clear_active, remove_active
\* or set_active (which clears first)
C26_DeleteKeepsActiveMarker ==
    [][/\ (nops' = nops + 1 /\ last'.op = "delete" /\ IsOk(ret'))
            => /\ ~fs'[ticket_path(last'.arg)].exists
               /\ GetAllActiveView(fs') = GetAllActiveView(fs)
               /\ GetActiveView(fs') = GetActiveView(fs)
               /\ LegacyMarker(fs') = LegacyMarker(fs)
       /\ (/\ nops' = nops + 1
           /\ last'.op \notin ClearingOps
           /\ GetActiveView(fs) # None
           /\ ~fs[ticket_path(GetActiveView(fs))].exists
           /\ ~fs'[ticket_path(GetActiveView(fs))].exists)
            => GetActiveView(fs') = GetActiveView(fs)]_vars

\* the active ticket has just been deleted: its file is gone, get_active()
\* answers its id and the active list still holds it
C26_Witness ==
    /\ last.op = "delete"
    /\ IsOk(ret)
    /\ ~fs[ticket_path(last.arg)].exists
    /\ GetActiveView(fs) = last.arg
    /\ Contains(GetAllActiveView(fs), last.arg)

\* --------------------------------------------------- claims under SpecConc
SameData(d1, d2) ==
    /\ Len(d1) = Len(d2)
    /\ \A i \in 1..Len(d1) : d1[i][1] = d2[i][1] /\ d1[i][2] = d2[i][2]
SameFile(f1, f2) == f1.exists = f2.exists /\ SameData(f1.data, f2.data)

\* both processes ran command op and both returned Ok
BothDone(op) == \A p \in Procs : cmd[p].op = op /\ pc[p] = "idle" /\ IsOk(res[p])

\* C1: two concurrent saves of the same identifier leave the ticket file equal
\* to the complete output of one of the two, never a mixture of both.
C1_NoTornWrite ==
    (BothDone("save") /\ cmd["p1"].arg.id = cmd["p2"].arg.id) =>
        LET f == fs[ticket_path(cmd["p1"].arg.id)]
        IN  /\ f.exists
            /\ \/ SameData(f.data, serialize(cmd["p1"].arg))
               \/ SameData(f.data, serialize(cmd["p2"].arg))

\* two saves of different records under one identifier have both returned, and
\* one of them had to wait for the other's lock
C1_Witness ==
    /\ BothDone("save")
    /\ cmd["p1"].arg.id = cmd["p2"].arg.id
    /\ cmd["p1"].arg.status # cmd["p2"].arg.status
    /\ \E p \in Procs : attempts[p] > 0

\* C12: for an identifier that was never saved, load and delete report
\* not-found and exists returns false; none reports a corrupt-data error.
C12_NeverSavedNotFound ==
    (last.op \in {"load", "delete", "exists"} /\ last.arg \notin saved) =>
        /\ ret.err # "corrupt"
        /\ IF last.op = "exists"
           THEN IsOk(ret) /\ ret.val = FALSE
           ELSE ret.err = "notfound"

\* exists was asked about an identifier never saved, on a store that holds
\* another ticket
C12_Witness ==
    /\ last.op = "exists" /\ last.arg \notin saved /\ saved # {}
    /\ IsOk(ret)

\* C13: after a ticket has been saved and then deleted, load of its
\* identifier reports not-found and exists returns false.
C13_DeletedIsGone ==
    (/\ prev.op = "delete" /\ prev.arg \in saved
     /\ last.op \in {"load", "exists"} /\ last.arg = prev.arg) =>
        IF last.op = "exists"
        THEN IsOk(ret) /\ ret.val = FALSE
        ELSE ret.err = "notfound"

\* a saved ticket was deleted and then loaded, while another ticket stays
\* stored
C13_Witness ==
    /\ prev.op = "delete" /\ prev.arg \in saved
    /\ last.op = "load" /\ last.arg = prev.arg
    /\ \E id \in saved : fs[ticket_path(id)].exists
    /\ ~IsOk(ret)

\* what load_all() returns on store f, listing the files in the given order
LoadAllView(f, order) == Run(load_all(order), f, Ok(<<>>)).ret

\* C14: find(predicate) returns exactly the tickets of load_all() for which
\* the predicate holds: every ticket returned satisfies it, every ticket of
\* load_all() that satisfies it is returned, and none is returned twice.
C14_FindIsFilteredLoadAll ==
    (last.op = "find") =>
        LET all == LoadAllView(fs, last.arg.order)
            matches(t) == ticket_matches_filter(t, last.arg.filter)
        IN  /\ ret.err = all.err
            /\ IsOk(ret) =>
                 /\ \A i \in 1..Len(ret.val) :
                        /\ matches(ret.val[i])
                        /\ \E j \in 1..Len(all.val) : all.val[j] = ret.val[i]
                 /\ \A j \in 1..Len(all.val) :
                        matches(all.val[j]) =>
                            \E i \in 1..Len(ret.val) : ret.val[i] = all.val[j]
                 /\ \A i, j \in 1..Len(ret.val) : ret.val[i] = ret.val[j] => i = j

\* find ran with a status predicate on a store of two tickets, one of which
\* satisfies it
C14_Witness ==
    /\ last.op = "find" /\ last.arg.filter = "done" /\ IsOk(ret)
    /\ Len(LoadAllView(fs, last.arg.order).val) = 2
    /\ Len(ret.val) = 1

\* the tickets stored in f that load
StoredIds(f) == {id \in TicketIds : IsOk(Stored(f, id))}

\* C15: no stored ticket has status Done with closed_at unset, whichever
\* command marked it Done.
C15_DoneHasClosedAt ==
    \A id \in StoredIds(fs) :
        Stored(fs, id).val.status = "done" => Stored(fs, id).val.closed_at # None

\* C16: a start operation (work-on) leaves the status of a ticket that is
\* neither Todo nor Blocked as it is: it does not move it to Doing.
C16_StartOnlyFromTodoOrBlocked ==
    [][\A id \in StoredIds(fs) :
          (/\ nops' = nops + 1 /\ last'.op = "work_on" /\ last'.arg = id
           /\ ~can_start(Stored(fs, id).val.status)) =>
              Stored(fs', id).val.status = Stored(fs, id).val.status]_vars

\* C17: every stored task has completed_at set exactly when completed is
\* true, after any sequence of the commands that touch tasks.
C17_CompletedAtIffCompleted ==
    \A id \in StoredIds(fs) :
        LET tasks == Stored(fs, id).val.tasks
        IN  \A i \in 1..Len(tasks) : (tasks[i].completed_at # None) <=> tasks[i].completed

\* the second task of a ticket was completed and then un-completed; its
\* first task stays completed
C17_Witness ==
    /\ prev.op = "task_complete" /\ last.op = "task_uncomplete" /\ IsOk(ret)
    /\ prev.arg = last.arg /\ last.arg.task_id = 2 /\ last.arg.ref = "t1"
    /\ LET tasks == Stored(fs, "t1").val.tasks
       IN  /\ Len(tasks) = 2
           /\ tasks[1].completed /\ tasks[1].completed_at # None
           /\ ~tasks[2].completed /\ tasks[2].completed_at = None

\* C18: no two stored tickets have the same slug, after any sequence of
\* ticket-creation commands run one after the other.
C18_SlugsUnique ==
    \A i, j \in StoredIds(fs) :
        i # j => Stored(fs, i).val.slug # Stored(fs, j).val.slug

\* the new command of p has returned Ok
NewDone(p) == cmd[p].op = "new" /\ pc[p] = "idle" /\ IsOk(res[p])

\* the stored tickets that have the slug
WithSlug(f, slug) == {id \in StoredIds(f) : Stored(f, id).val.slug = slug}

\* C19: the duplicate check of new prevents a second ticket with a stored
\* slug only when the commands run one after the other; two new commands
\* that run concurrently with the same slug and both return Ok have both
\* saved, and each of the two tickets is stored with that slug.
C19_ConcurrentNewNotPrevented ==
    \A p, q \in Procs :
        (p # q /\ NewDone(p)) =>
            /\ cmd[q].op = "none" =>
                   WithSlug(fs, cmd[p].arg.ticket.slug) = {cmd[p].arg.ticket.id}
            /\ NewDone(q) =>
                   /\ cmd[p].arg.ticket.id \in WithSlug(fs, cmd[p].arg.ticket.slug)
                   /\ cmd[q].arg.ticket.id \in WithSlug(fs, cmd[q].arg.ticket.slug)

\* both new commands got the same slug, both returned Ok, and two stored
\* tickets have that slug
C19_Witness ==
    /\ NewDone("p1") /\ NewDone("p2")
    /\ cmd["p1"].arg.ticket.slug = cmd["p2"].arg.ticket.slug
    /\ Cardinality(WithSlug(fs, cmd["p1"].arg.ticket.slug)) = 2

\* the bulk update has returned an error
BulkFailed == cmd["p1"].op = "bulk_update" /\ pc["p1"] = "idle" /\ ~IsOk(res["p1"])

\* the tickets of the store before the bulk update, in the order load_all
\* lists them, that the bulk update has to change
BulkTargets ==
    LET x == cmd["p1"].arg
        old == [i \in 1..Len(x.order) |-> create_test_ticket(x.order[i], "todo")]
    IN  SelectSeq(old, LAMBDA t : /\ t.id \in saved
                                  /\ ticket_matches_filter(t, x.filter)
                                  /\ t.status # x.status)

\* C20: a bulk update that fails has not been undone and has not gone on:
\* the tickets it saved before the failure are stored with their new status,
\* those after it are stored as they were.
C20_BulkNotAtomic ==
    BulkFailed =>
        \E k \in 0..Max(Len(BulkTargets) - 1, 0) :
            \A i \in 1..Len(BulkTargets) :
                Stored(fs, BulkTargets[i].id) =
                    Ok(IF i <= k
                       THEN bulk_update_ticket(BulkTargets[i], cmd["p1"].arg.status)
                       ELSE BulkTargets[i])

\* the bulk update found the storage locked at its second save: the first
\* ticket is stored Done, the second is still Todo
C20_Witness ==
    /\ BulkFailed /\ res["p1"].err = "locked"
    /\ Len(BulkTargets) = 2
    /\ Stored(fs, BulkTargets[1].id).val.status = "done"
    /\ Stored(fs, BulkTargets[2].id).val.status = "todo"

\* process p saved a ticket and returned Ok, and the other process is saving,
\* or has saved, a ticket with a different identifier
SavedBeside(p, q) ==
    /\ cmd[p].op = "save" /\ pc[p] = "idle" /\ IsOk(res[p])
    /\ cmd[q].op = "save" /\ cmd[q].arg.id # cmd[p].arg.id

MutatingCalls == WriteCalls \cup {"delete_ticket", "clear_active_ticket", "fs_remove"}

\* C2: every mutating operation holds the exclusive lock while it touches the
\* filesystem: a process at a call that writes or removes a file holds the
\* lock, and no two processes hold it at once.
C2_MutationsUnderLock ==
    /\ \A p \in Procs :
          (pc[p] \in {"call", "write"} /\ Head(prog[p]).call \in MutatingCalls)
              => holds[p]
    /\ Cardinality({p \in Procs : holds[p]}) <= 1

SaveInProgress(id) ==
    \E p \in Procs :
        /\ holds[p]
        /\ Head(prog[p]).call = "save_ticket"
        /\ Head(prog[p]).arg.id = id

\* C6: the lock does not prevent lost updates: the stored record is the one
\* saved by the process that acquired the lock last, whatever another process
\* saved in between.
C6_LastWriterWins ==
    \A id \in TicketIds :
        ~SaveInProgress(id) => SameFile(fs[ticket_path(id)], last_saved[id])

\* two task-add commands on one ticket without tasks both succeeded, and the
\* stored ticket has one task
C6_LostUpdate ==
    /\ BothDone("task_add")
    /\ cmd["p1"].arg.ref = cmd["p2"].arg.ref
    /\ IsOk(Stored(fs, cmd["p1"].arg.ref))
    /\ Len(Stored(fs, cmd["p1"].arg.ref).val.tasks) = 1

\* process w ran set_active and process r a get_active that returned Ok
SetAndGet(w, r) ==
    /\ w # r
    /\ cmd[w].op = "set_active"
    /\ cmd[r].op = "get_active"
    /\ pc[r] = "idle"
    /\ IsOk(res[r])

\* the tickets active before the two commands: the root with a second ticket
\* starts with both on the active list, the other root with none
ActiveBefore == IF fs[ticket_path("t2")].exists THEN {"t2", "t1"} ELSE {}

\* C23: set_active is atomic for concurrent readers: while set_active(b)
\* replaces an active ticket, a concurrent get_active() that returns Ok
\* never returns None
C23_SetActiveAtomic ==
    \A w, r \in Procs :
        (SetAndGet(w, r) /\ ActiveBefore # {}) => res[r].val # None

\* ------------------------------------------------- claims under SpecFlow
\* the outcomes of cleanup_worktree in which git or the prompt failed
CleanupFailures == {"no_git", "prompt_failed", "remove_failed", "remove_not_run"}

\* the command that just ran closed ticket id: it was stored open and is
\* stored Done
Closed(id) ==
    /\ nops' = nops + 1
    /\ IsOk(Stored(fs, id)) /\ Stored(fs, id).val.status # "done"
    /\ IsOk(Stored(fs', id)) /\ Stored(fs', id).val.status = "done"

\* C21: once finish has saved the ticket as Done, a failure of the worktree
\* cleanup does not make the command fail (it is a warning) and the ticket
\* stays Done.
C21_CleanupFailureIsWarning ==
    [][\A id \in TicketIds :
          (/\ last'.op = "finish" /\ Closed(id)
           /\ ~last'.arg.x.keep_worktree
           /\ last'.arg.x.git \in CleanupFailures) =>
              IsOk(ret')]_vars

\* C24: a finish or an approve that is given a ticket and closes it leaves
\* every other ticket as active as it was, in the list and in the marker
\* file, and the closed ticket in neither.
C24_CloseRemovesOnlyClosed ==
    [][\A id \in TicketIds :
          (/\ last'.op \in {"finish", "approve"} /\ last'.arg.ref = id
           /\ Closed(id)) =>
              /\ \A o \in TicketIds \ {id} :
                    /\ Contains(GetAllActiveView(fs), o) => Contains(GetAllActiveView(fs'), o)
                    /\ Contains(LegacyMarker(fs), o) => Contains(LegacyMarker(fs'), o)
              /\ ~Contains(GetAllActiveView(fs'), id)
              /\ ~Contains(LegacyMarker(fs'), id)]_vars

\* C25: after any sequence of workflow commands, a stored ticket with
\* closed_at populated has status Done.
C25_ClosedAtOnlyIfDone ==
    \A id \in StoredIds(fs) :
        Stored(fs, id).val.closed_at # None => Stored(fs, id).val.status = "done"

\* ------------------------------------------------- claims under SpecPhase
\* C27: the current phase of a specification changes only along a transition
\* that can_transition_phase accepts for that specification
C27_PhaseChangesOnlyAlongValidTransitions ==
    [][specification'.current_phase # specification.current_phase
          => can_transition_phase(specification, specification'.current_phase)]_vars

\* ------------------------------------------------- claims under SpecHooks
\* the enabled hooks of the event of the last execute_hooks, in visiting order
EventHooks == get_for_event(hooks, last.arg.id)
\* the positions in EventHooks of the failing hooks with abort_on_failure
Aborting ==
    {i \in 1..Len(EventHooks) :
        hooks[EventHooks[i]].fails /\ hooks[EventHooks[i]].abort_on_failure}

\* C28: execute_hooks returns false exactly when the event is a pre_ event
\* and one of its enabled hooks fails with abort_on_failure set, and then it
\* has run the hooks up to the first such hook and none after it; in every
\* other case it has run all the hooks of the event, failing or not, and
\* returns true
C28_AbortOnlyOnPreEventAbortHook ==
    (last.op = "execute_hooks" /\ IsOk(ret)) =>
        IF starts_with_pre(last.arg.id) /\ Aborting # {}
        THEN /\ ret.val = FALSE
             /\ executed = SubSeq(EventHooks, 1, CHOOSE i \in Aborting :
                                                    \A j \in Aborting : i <= j)
        ELSE /\ ret.val = TRUE
             /\ executed = EventHooks

\* a pre_ event stopped at a failing abort_on_failure hook after a failing
\* hook without the flag had not stopped it, a later hook left unrun
C28_Witness ==
    /\ last.op = "execute_hooks"
    /\ IsOk(ret)
    /\ ret.val = FALSE
    /\ Len(executed) = 2
    /\ Len(EventHooks) = 3
    /\ hooks[executed[1]].fails

\* -------------------------------------------------- claims under SpecTime
\* C29: time start succeeds only when no timer is running, and then one is;
\* when it fails the tracking file is unchanged. time stop succeeds exactly
\* when a timer is running, and then the timer is cleared and exactly one
\* entry, for the timer's ticket and of at least one minute, is appended; when
\* it fails the file is unchanged. So successful starts and stops alternate
\* and the file never holds more than one timer
C29_StartStopAlternate ==
    [][(nops' = nops + 1) =>
        /\ Len(tracking'.active_timer) <= 1
        /\ (last'.op = "time_start") =>
              /\ IsOk(ret') => /\ ~is_some(tracking.active_timer)
                               /\ is_some(tracking'.active_timer)
                               /\ tracking'.active_timer[1].ticket_id = last'.arg.id
                               /\ tracking'.entries = tracking.entries
              /\ is_some(tracking.active_timer) => ~IsOk(ret')
              /\ ~IsOk(ret') => tracking' = tracking
        /\ (last'.op = "time_stop") =>
              /\ IsOk(ret') <=> is_some(tracking.active_timer)
              /\ IsOk(ret') =>
                    /\ ~is_some(tracking'.active_timer)
                    /\ Len(tracking'.entries) = Len(tracking.entries) + 1
                    /\ SubSeq(tracking'.entries, 1, Len(tracking.entries)) = tracking.entries
                    /\ tracking'.entries[Len(tracking'.entries)].ticket_id
                         = tracking.active_timer[1].ticket_id
                    /\ tracking'.entries[Len(tracking'.entries)].duration_minutes >= 1
              /\ ~IsOk(ret') => tracking' = tracking]_vars

\* a timer started and stopped within the same minute left one entry of one
\* minute, and a second stop then failed
C29_Witness ==
    /\ last.op = "time_stop"
    /\ ~IsOk(ret)
    /\ prev.op = "time_stop"
    /\ Len(tracking.entries) = 1
    /\ tracking.entries[1].duration_minutes = 1
    /\ ~is_some(tracking.active_timer)
    /\ nops = 3

\* ------------------------------------------------ claims under SpecEvents
\* C22: a successful new command with the start flag, run where the
\* integration service has a subscriber, leaves at the end of what the
\* subscriber has yet to read the TicketCreated event of the new ticket
\* followed by the StatusChanged event of that ticket from Todo to Doing
C22_NewStartNotifiesInOrder ==
    [][(/\ nops' = nops + 1
        /\ last'.op = "new"
        /\ last'.arg.start
        /\ IsOk(ret')
        /\ service
        /\ bridge = "running")
       => LET t == last'.arg.ticket
              n == Len(queue')
          IN  /\ n >= 2
              /\ queue'[n - 1] = TicketCreated(t)
              /\ queue'[n] = StatusChanged(t.id, "todo", "doing")]_vars

\* the bridge has received, one after the other, the two events of a
\* successful new --start
C22_Witness ==
    /\ last.op = "bridge"
    /\ Len(handled) >= 2
    /\ \E id \in TicketIds :
        /\ fs[ticket_path(id)].exists
        /\ deserialize(fs[ticket_path(id)].data).val.status = "doing"
        /\ handled[Len(handled) - 1]
             = TicketCreated(Ticket_new(id, deserialize(fs[ticket_path(id)].data).val.slug))
        /\ handled[Len(handled)] = StatusChanged(id, "todo", "doing")

\* C30: the bridge's loop leaves only on Closed, that is once the sender is
\* gone and nothing is left to read; a turn that logs a handler error or a
\* Lagged notification leaves it running, and every event it receives, after
\* such a turn too, is handed to the handler
C30_BridgeStopsOnlyOnClosed ==
    [][/\ (bridge = "running" /\ bridge' # "running")
            => (closed /\ Len(queue) = 0 /\ missed = 0)
       /\ (bridge = "running" /\ Len(queue') < Len(queue))
            => (bridge' = "running" /\ handled' = Append(handled, Head(queue)))
       /\ (bridge = "running" /\ missed > 0 /\ missed' = 0)
            => (bridge' = "running" /\ faults' = faults + 1)]_vars

\* after a handler error and then a Lagged notification, the loop has
\* forwarded the next event
C30_Witness ==
    /\ bridge = "running"
    /\ faults >= 2
    /\ prev.op = "bridge"
    /\ prev.arg.outcome = "lagged"
    /\ last.op = "bridge"
    /\ last.arg.outcome = "forwarded"
    /\ Len(handled) >= 2

====
